---- MODULE Spec2Model ----
(***************************************************************************)
(* A model of the dependency-closure driver of generate.py (write_items)   *)
(* and of item_from_structure_definition: the superclass, the attribute    *)
(* tree, the inline classes, the dependency set and the exceptions.        *)
(*                                                                         *)
(* Python's recursion is an explicit stack of frames.  The list           *)
(* `processed` is one object shared by every frame of a run: the top-level *)
(* call creates it and each recursive call receives the same object.  The  *)
(* assignment `processed = processed + items` at the end of a call binds a *)
(* NEW list to the frame's local name and leaves the shared list alone.    *)
(***************************************************************************)
EXTENDS Integers, Sequences, FiniteSets, TLC

VARIABLES
    structure_definitions,  \* the definition index: name -> StructureDefinition
    items,                  \* the root sequence given to the top-level call
    run,                    \* "first" or "second" top-level call over the same input
    status,                 \* "running", "done" (returned) or "failed" (raised)
    stack,                  \* call stack of write_items frames, top of stack last
    processed,              \* the list object shared by all frames of the run
    compiled,               \* log: names handed to item_from_structure_definition
    emitted,                \* log: names whose artifact was written, in order
    files,                  \* output folder: file name -> rendered artifact
    result,                 \* the list returned by the top-level call
    error,                  \* the exception that left write_items, or "none"
    pending,                \* name being compiled when the exception was raised
    firstRun,               \* what the first run returned and wrote
    call                    \* one call of item_from_structure_definition, element by element

vars == <<structure_definitions, items, run, status, stack, processed, compiled,
          emitted, files, result, error, pending, firstRun, call>>

(***************************************************************************)
(* Bounds of the model.                                                    *)
(***************************************************************************)
MaxRoots == 2
MaxDepth == 6
\* The longest differential handed to item_from_structure_definition alone.
MaxRecords == 4

(***************************************************************************)
(* Strings.  A name is a TLA+ string; Python compares str values by code   *)
(* point, so the order used by list.sort() is the lexicographic order of   *)
(* the code-point sequences below.                                         *)
(***************************************************************************)
CodePoints(s) ==
  CASE s = "" -> <<>>
  [] s = "Patient" -> <<80, 97, 116, 105, 101, 110, 116>>
  [] s = "DomainResource" -> <<68, 111, 109, 97, 105, 110, 82, 101, 115, 111, 117, 114, 99, 101>>
  [] s = "Resource" -> <<82, 101, 115, 111, 117, 114, 99, 101>>
  [] s = "HumanName" -> <<72, 117, 109, 97, 110, 78, 97, 109, 101>>
  [] s = "Identifier" -> <<73, 100, 101, 110, 116, 105, 102, 105, 101, 114>>
  [] s = "Reference" -> <<82, 101, 102, 101, 114, 101, 110, 99, 101>>
  [] s = "Element" -> <<69, 108, 101, 109, 101, 110, 116>>
  [] s = "Extension" -> <<69, 120, 116, 101, 110, 115, 105, 111, 110>>
  [] s = "FHIRBase" -> <<70, 72, 73, 82, 66, 97, 115, 101>>
  [] s = "Period" -> <<80, 101, 114, 105, 111, 100>>
  [] s = "Broken" -> <<66, 114, 111, 107, 101, 110>>
  [] s = "boolean" -> <<98, 111, 111, 108, 101, 97, 110>>
  [] s = "string" -> <<115, 116, 114, 105, 110, 103>>
  [] s = "object" -> <<111, 98, 106, 101, 99, 116>>

\* str.lower(), used for the artifact's file name.
Lower(s) ==
  CASE s = "" -> ""
  [] s = "Patient" -> "patient"
  [] s = "DomainResource" -> "domainresource"
  [] s = "Resource" -> "resource"
  [] s = "HumanName" -> "humanname"
  [] s = "Identifier" -> "identifier"
  [] s = "Reference" -> "reference"
  [] s = "Element" -> "element"
  [] s = "Extension" -> "extension"
  [] s = "FHIRBase" -> "fhirbase"
  [] s = "Period" -> "period"
  [] s = "Broken" -> "broken"
  [] s = "boolean" -> "boolean"
  [] s = "string" -> "string"
  [] s = "object" -> "object"

RECURSIVE LexLess(_, _)
\* a < b for two code-point sequences (Python's str.__lt__).
LexLess(a, b) ==
  IF Len(b) = 0 THEN FALSE
  ELSE IF Len(a) = 0 THEN TRUE
  ELSE IF Head(a) # Head(b) THEN Head(a) < Head(b)
  ELSE LexLess(Tail(a), Tail(b))

StrLess(s, t) == LexLess(CodePoints(s), CodePoints(t))

Range(seq) == {seq[i] : i \in DOMAIN seq}

\* The place of list[i] in the sorted list: after every smaller value and after
\* the equal values that stand before it (list.sort() is stable).
SortedPosition(list, i) ==
  Cardinality({j \in DOMAIN list : StrLess(list[j], list[i])})
  + Cardinality({j \in 1..i : list[j] = list[i]})

SortAscending(list) ==
  [k \in DOMAIN list |-> list[CHOOSE i \in DOMAIN list : SortedPosition(list, i) = k]]

Unsorted(list) == list
\* list.sort(): ascending by str comparison.
sort(list) == SortAscending(list)

\* The orders in which iterating a Python set may yield its elements.
IterationOrders(S) ==
  {o \in [1..Cardinality(S) -> S] : \A i, j \in 1..Cardinality(S) : i # j => o[i] # o[j]}

(***************************************************************************)
(* The type catalogs of module `base` (only the codes the model uses).     *)
(***************************************************************************)
PRIMITIVE_TYPES == {"boolean", "string"}
COMPLEX_TYPES == {"HumanName", "Identifier", "Reference", "Period", "Extension", "Element"}

(***************************************************************************)
(* StructureDefinition documents.  A string value that the code splits is *)
(* kept as the sequence of its pieces: `path` is the element path split at *)
(* '.', base and baseDefinition are the value split at '/'.  An absent     *)
(* element is the empty sequence (str.split never returns an empty list).  *)
(***************************************************************************)
Absent == <<>>
EmptyString == <<"">>

Type(code) == [code |-> code, profile |-> Absent]

\* nameReference is the referenced name ("" when the element is absent),
\* contentReference the value split at '.' (Absent when the element is absent).
ElementDefinition(path, types) ==
  [path |-> path, type |-> types, min |-> "0", max |-> "1",
   nameReference |-> "", contentReference |-> Absent]

\* The same element with its <min> and <max> values.
WithMinMax(e, min, max) == [e EXCEPT !.min = min, !.max = max]

\* <type><code value="Reference"/><profile value=url/></type>
ReferenceTo(url) == [code |-> "Reference", profile |-> <<url>>]

\* An element with no <type>, only <nameReference value=name/> (DSTU2).
NameReference(path, name) == [ElementDefinition(path, <<>>) EXCEPT !.nameReference = name]

\* An element with no <type>, only <contentReference value=.../> (STU3), the
\* value split at '.'.
ContentReference(path, pieces) ==
  [ElementDefinition(path, <<>>) EXCEPT !.contentReference = pieces]

StructureDefinition(base, baseDefinition, elements) ==
  [base |-> base, baseDefinition |-> baseDefinition, differential |-> elements]

StuUrl(name) == <<"http:", "", "hl7.org", "fhir", "StructureDefinition", name>>

SD_Patient ==
  StructureDefinition(<<"DomainResource">>, Absent,
    << ElementDefinition(<<"Patient">>, <<>>),
       WithMinMax(ElementDefinition(<<"Patient", "name">>, <<Type("HumanName")>>), "0", "*"),
       ElementDefinition(<<"Patient", "active">>, <<Type("boolean")>>) >>)

SD_DomainResource ==
  StructureDefinition(Absent, StuUrl("Resource"),
    << ElementDefinition(<<"DomainResource">>, <<>>),
       ElementDefinition(<<"DomainResource", "extension">>, <<Type("Extension")>>) >>)

SD_Resource ==
  StructureDefinition(Absent, Absent,
    << ElementDefinition(<<"Resource">>, <<>>),
       ElementDefinition(<<"Resource", "language">>, <<Type("string")>>) >>)

SD_HumanName ==
  StructureDefinition(<<"Element">>, Absent,
    << ElementDefinition(<<"HumanName">>, <<>>),
       ElementDefinition(<<"HumanName", "family">>, <<Type("string")>>),
       ElementDefinition(<<"HumanName", "period">>, <<Type("Period")>>) >>)

SD_Period ==
  StructureDefinition(Absent, StuUrl("Element"),
    << ElementDefinition(<<"Period">>, <<>>),
       ElementDefinition(<<"Period", "start">>, <<Type("string")>>) >>)

\* STU3: Identifier.assigner is a Reference and Reference.identifier an Identifier.
SD_Identifier ==
  StructureDefinition(Absent, StuUrl("Element"),
    << ElementDefinition(<<"Identifier">>, <<>>),
       ElementDefinition(<<"Identifier", "value">>, <<Type("string")>>),
       ElementDefinition(<<"Identifier", "assigner">>, <<Type("Reference")>>) >>)

SD_Reference ==
  StructureDefinition(Absent, StuUrl("Element"),
    << ElementDefinition(<<"Reference">>, <<>>),
       ElementDefinition(<<"Reference", "reference">>, <<Type("string")>>),
       ElementDefinition(<<"Reference", "identifier">>, <<Type("Identifier")>>) >>)

\* DSTU2: Reference has no identifier element.
SD_ReferenceDSTU2 ==
  StructureDefinition(<<"Element">>, Absent,
    << ElementDefinition(<<"Reference">>, <<>>),
       ElementDefinition(<<"Reference", "reference">>, <<Type("string")>>) >>)

SD_boolean ==
  StructureDefinition(<<"Element">>, Absent,
    << ElementDefinition(<<"boolean">>, <<>>),
       ElementDefinition(<<"boolean", "value">>, <<Type("boolean")>>) >>)

\* Neither base nor baseDefinition: the superclass cannot be determined.
SD_Broken ==
  StructureDefinition(Absent, Absent,
    << ElementDefinition(<<"Broken">>, <<>>),
       ElementDefinition(<<"Broken", "name">>, <<Type("HumanName")>>) >>)

\* An element with no type and no reference of either kind.
SD_Untyped ==
  StructureDefinition(<<"Element">>, Absent,
    << ElementDefinition(<<"Period">>, <<>>),
       ElementDefinition(<<"Period", "start">>, <<>>) >>)

CommonDefinitions ==
  ("Patient" :> SD_Patient) @@ ("DomainResource" :> SD_DomainResource) @@
  ("Resource" :> SD_Resource) @@ ("HumanName" :> SD_HumanName) @@
  ("Identifier" :> SD_Identifier) @@ ("boolean" :> SD_boolean)

\* Complete, with the mutual reference Identifier <-> Reference.
CatalogSTU3 ==
  CommonDefinitions @@ ("Period" :> SD_Period) @@ ("Reference" :> SD_Reference)

\* Complete and acyclic; Broken is a definition nothing depends on.
CatalogDSTU2 ==
  CommonDefinitions @@ ("Period" :> SD_Period) @@ ("Reference" :> SD_ReferenceDSTU2) @@
  ("Broken" :> SD_Broken)

\* Period, a dependency of HumanName, has no entry.
CatalogNoPeriod ==
  CommonDefinitions @@ ("Reference" :> SD_ReferenceDSTU2)

\* Period, a dependency of HumanName, has an entry that does not compile.
CatalogUntyped ==
  CommonDefinitions @@ ("Period" :> SD_Untyped) @@ ("Reference" :> SD_ReferenceDSTU2)

Catalogs == {CatalogSTU3, CatalogDSTU2, CatalogNoPeriod, CatalogUntyped}

RootNames == {"", "Patient", "HumanName", "Identifier", "Element", "Broken", "boolean"}

RootSequences == UNION {[1..n -> RootNames] : n \in 0..MaxRoots}

(***************************************************************************)
(* item_from_structure_definition: the superclass, the attribute tree, the *)
(* inline classes, the dependency set and the required type sets of one    *)
(* definition, or the exception it raises.                                 *)
(***************************************************************************)
getValue(element, name, default) ==
  IF element[name] = Absent THEN default ELSE element[name]

\* Python's truth value of a str kept as its pieces between separators.
Falsy(value) == value = EmptyString

\* An OrderedDict is the sequence of its items in insertion order.
OrderedDict == <<>>

Keys(dict) == {dict[i].key : i \in DOMAIN dict}

Get(dict, key) == dict[CHOOSE i \in DOMAIN dict : dict[i].key = key].value

\* dict[key] = value: a new key goes last, a known key keeps its place.
Put(dict, key, value) ==
  IF key \in Keys(dict)
  THEN [i \in DOMAIN dict |-> IF dict[i].key = key THEN [key |-> key, value |-> value]
                              ELSE dict[i]]
  ELSE Append(dict, [key |-> key, value |-> value])

\* lines 177-187.  The OrderedDict objects that hold attributes live in `heap`
\* and are named by their position in it, so that two holders of one position
\* hold the same object; heap[1] is root['attributes'].  A properties dict
\* without the key 'attributes' has attributes = 0.
NewItem(name) ==
  [status |-> "ok", name |-> name, superclass |-> "FHIRBase",
   required_basic_types |-> {}, required_complex_types |-> {}, dependencies |-> {},
   attributes |-> 1, heap |-> <<OrderedDict>>, implicit_classes |-> OrderedDict]

Failed(item, exception) == [item EXCEPT !.status = exception]

\* The element whose path is the definition's name: docstring and superclass.
RootElement(name, sd, item) ==
  LET dstu2 == getValue(sd, "base", EmptyString)
      superclass_ == IF Falsy(dstu2) THEN getValue(sd, "baseDefinition", <<"FHIRBase">>)
                     ELSE dstu2
      last == superclass_[Len(superclass_)]
  IN IF superclass_ = <<"FHIRBase">> /\ name # "Resource"
     THEN Failed(item, "Exception")
     ELSE [item EXCEPT !.superclass = last,
                       !.dependencies = IF last \notin PRIMITIVE_TYPES /\ last # "object"
                                        THEN @ \cup {last} ELSE @]

TypeCodes(e) == {e.type[i].code : i \in DOMAIN e.type}

\* line 230: str.replace('[x]', ''), on the segments the model uses.
StripChoice(segment) ==
  CASE segment = "value[x]" -> "value"
    [] OTHER -> segment

\* lines 232-233.
EscapeReserved(attr) == IF attr \in {"def", "class"} THEN attr \o "_" ELSE attr

\* s[0].upper() + s[1:]; a str that starts with a capital is unchanged.
Capitalize(s) ==
  CASE s = "name" -> "Name"
    [] s = "active" -> "Active"
    [] s = "value" -> "Value"
    [] s = "item" -> "Item"
    [] s = "code" -> "Code"
    [] s = "contact" -> "Contact"
    [] s = "class_" -> "Class_"
    [] s = "def_" -> "Def_"
    [] s = "organization" -> "Organization"
    [] s = "link" -> "Link"
    [] s = "family" -> "Family"
    [] s = "period" -> "Period"
    [] s = "start" -> "Start"
    [] s = "extension" -> "Extension"
    [] s = "language" -> "Language"
    [] s = "assigner" -> "Assigner"
    [] s = "reference" -> "Reference"
    [] s = "identifier" -> "Identifier"
    [] s = "element" -> "Element"
    [] OTHER -> s

RECURSIVE Descend(_, _, _)
\* lines 235-237: parent = parent['attributes'][component] for each component.
\* The value is the position of the last parent's 'attributes' (0 when it has
\* no such key), or -1 when the loop raises KeyError: a parent on the way has
\* no 'attributes' or no such component.
Descend(heap, attributes, components) ==
  IF components = <<>> THEN attributes
  ELSE IF attributes = 0 THEN -1
  ELSE IF Head(components) \notin Keys(heap[attributes]) THEN -1
  ELSE Descend(heap, Get(heap[attributes], Head(components)).attributes, Tail(components))

\* lines 241-252: the str appended to types_ for one <type>.
TypeString(type_) ==
  IF type_.code = "Reference"
  THEN "Reference(reference=\"" \o getValue(type_, "profile", <<"None">>)[1] \o "\")"
  ELSE type_.code

AlwaysList(types_) == Len(types_) >= 1
\* line 255.
SeveralTypes(types_) == Len(types_) > 1

\* A str is [list |-> FALSE, value |-> <<str>>], a list of str
\* [list |-> TRUE, value |-> the list].
Str(s) == [list |-> FALSE, value |-> <<s>>]

\* lines 254-269: the 'type' of the attribute, or the exception that leaves
\* the function: [raised |-> exception] or [raised |-> "", type |-> ...].
ResolveType(e) ==
  LET types_ == [i \in DOMAIN e.type |-> TypeString(e.type[i])]
      pieces == e.contentReference
  IN IF SeveralTypes(types_) THEN [raised |-> "", type |-> [list |-> TRUE, value |-> types_]]
     ELSE IF Len(types_) > 0 THEN [raised |-> "", type |-> Str(types_[1])]
     ELSE IF e.nameReference # "" THEN [raised |-> "", type |-> Str(Capitalize(e.nameReference))]
     ELSE IF pieces = Absent THEN [raised |-> "AttributeError", type |-> Str("")]
     ELSE IF pieces[Len(pieces)] = "" THEN [raised |-> "IndexError", type |-> Str("")]
     ELSE [raised |-> "", type |-> Str(Capitalize(pieces[Len(pieces)]))]

InlineTypes == {"Element", "BackboneElement"}

\* line 279: type_ in ['Element', 'BackboneElement'].
IsInline(type_) == ~type_.list /\ type_.value[1] \in InlineTypes

\* lines 228-299, one attribute element: find the parent, classify the type
\* codes, resolve the type, build the properties (and the inline class of an
\* Element or BackboneElement) and store them under the parent.
AttributeElement(e, item) ==
  LET path == Tail(e.path)
      attr == EscapeReserved(StripChoice(path[Len(path)]))
      parent == Descend(item.heap, item.attributes, SubSeq(path, 1, Len(path) - 1))
      codes == TypeCodes(e)
      basic == codes \cap PRIMITIVE_TYPES
      complex == (codes \ PRIMITIVE_TYPES) \cap COMPLEX_TYPES
      resolved == ResolveType(e)
      inline == IsInline(resolved.type)
      attrs == Len(item.heap) + 1
      properties == [name |-> attr, min |-> e.min, max |-> e.max,
                     type |-> IF inline THEN Str(Capitalize(attr)) ELSE resolved.type,
                     attributes |-> IF inline THEN attrs ELSE 0]
      ic == [name |-> Capitalize(attr), superclass |-> resolved.type.value[1],
             attributes |-> attrs]
      heap == IF inline THEN Append(item.heap, OrderedDict) ELSE item.heap
  IN IF parent = -1 THEN Failed(item, "KeyError")
     ELSE IF resolved.raised # "" THEN Failed(item, resolved.raised)
     ELSE IF parent = 0 THEN Failed(item, "KeyError")
     ELSE [item EXCEPT !.required_basic_types = @ \cup basic,
                       !.required_complex_types = @ \cup complex,
                       !.dependencies = @ \cup complex,
                       !.implicit_classes = IF inline THEN Put(@, attr, ic) ELSE @,
                       !.heap = [heap EXCEPT ![parent] = Put(@, attr, properties)]]

RECURSIVE ParseElements(_, _, _, _)
\* The loop over differential.iter('element'), stopping at the first exception.
ParseElements(name, sd, elements, item) ==
  IF Len(elements) = 0 \/ item.status # "ok" THEN item
  ELSE LET e == Head(elements)
           path == Tail(e.path)
           next == IF Len(path) = 0 THEN RootElement(name, sd, item)
                   ELSE AttributeElement(e, item)
       IN CHOOSE root \in {ParseElements(name, sd, Tail(elements), after) :
                             after \in {next}} : TRUE

item_from_structure_definition(name, sds) ==
  IF name \notin DOMAIN sds THEN Failed(NewItem(name), "KeyError")
  ELSE ParseElements(name, sds[name], sds[name].differential, NewItem(name))

(***************************************************************************)
(* write_items.                                                            *)
(***************************************************************************)
Sentinels == {"FHIRBase", "Element", "Extension"}

NoSentinel(name) == FALSE
\* line 136: the names the loop passes over.
IsSentinel(name) == name \in Sentinels

EmptyStringFirst(list) == Len(list) > 0 /\ list[1] = ""
\* line 126: '' in items.
ContainsEmptyString(list) == "" \in Range(list)

LeakedProcessed(previous) == previous
\* lines 130-131: processed is None in a top-level call, which makes a new list.
NewProcessed(previous) == <<>>

AllDependencies(order, list) == order
\* line 156: [dep for dep in dependencies if dep not in processed].
unprocessed_dependecies(order, list) ==
  SelectSeq(order, LAMBDA dep : dep \notin Range(list))

ExtendDropped(list, more) == list
\* line 157: processed.extend(unprocessed_dependecies).
extend(list, more) == list \o more

RecurseOnItems(unprocessed, current) == current
\* line 158: the items of the recursive call.
RecursiveItems(unprocessed, current) == unprocessed

CaughtInLoop(frames) ==
  [frames EXCEPT ![Len(frames)] = [@ EXCEPT !.idx = @ + 1]]
\* No frame of write_items has a handler around the compilation: an exception
\* leaves every frame.
Unwind(frames) == <<>>

Frame(list) == [items |-> list, idx |-> 1, pc |-> "check"]

Defer(frames, frame) == <<frame>> \o frames
\* line 158: the caller is suspended until the call returns.
Call(frames, frame) == Append(frames, frame)

Top == stack[Len(stack)]

Running == status = "running" /\ stack # <<>>

CurrentName == Top.items[Top.idx]

InLoop == Running /\ Top.pc = "loop" /\ Top.idx <= Len(Top.items)

\* write_items reaches item_from_structure_definition through its own steps.
NoCall == [pc |-> "none"]

Raise(exception, name) ==
  /\ error' = exception
  /\ pending' = name
  /\ stack' = Unwind(stack)
  /\ status' = IF stack' = <<>> THEN "failed" ELSE "running"

Init ==
  /\ structure_definitions \in Catalogs
  /\ items \in RootSequences
  /\ run = "first"
  /\ status = "running"
  /\ stack = <<Frame(items)>>
  /\ processed = <<>>
  /\ compiled = <<>>
  /\ emitted = <<>>
  /\ files = <<>>
  /\ result = <<>>
  /\ error = "none"
  /\ pending = ""
  /\ firstRun = [result |-> <<>>, files |-> <<>>, emitted |-> <<>>]
  /\ call = NoCall

\* lines 126-127: a call whose items hold '' raises before its loop.
RejectEmptyString ==
  /\ Running /\ Top.pc = "check"
  /\ ContainsEmptyString(Top.items)
  /\ Raise("Exception", "")
  /\ UNCHANGED <<structure_definitions, items, run, processed, compiled, emitted,
                 files, result, firstRun, call>>

\* lines 126-133: otherwise the call enters its loop.
EnterLoop ==
  /\ Running /\ Top.pc = "check"
  /\ ~ContainsEmptyString(Top.items)
  /\ stack' = [stack EXCEPT ![Len(stack)] = [@ EXCEPT !.pc = "loop"]]
  /\ UNCHANGED <<structure_definitions, items, run, status, processed, compiled,
                 emitted, files, result, error, pending, firstRun, call>>

\* lines 135-137: a sentinel name is passed over.
SkipSentinel ==
  /\ InLoop
  /\ IsSentinel(CurrentName)
  /\ stack' = [stack EXCEPT ![Len(stack)] = [@ EXCEPT !.idx = @ + 1]]
  /\ UNCHANGED <<structure_definitions, items, run, status, processed, compiled,
                 emitted, files, result, error, pending, firstRun, call>>

\* line 140: item_from_structure_definition raises; nothing is written.
CompileFails ==
  /\ InLoop
  /\ ~IsSentinel(CurrentName)
  /\ \E item \in {item_from_structure_definition(CurrentName, structure_definitions)} :
        /\ item.status # "ok"
        /\ compiled' = Append(compiled, CurrentName)
        /\ Raise(item.status, CurrentName)
  /\ UNCHANGED <<structure_definitions, items, run, processed, emitted, files,
                 result, firstRun, call>>

\* lines 139-158: compile the name, write its artifact, extend processed by the
\* dependencies not yet in it and call write_items on them.  The caller's loop
\* continues with its next name when that call returns.
CompileEmitRecurse ==
  /\ InLoop
  /\ ~IsSentinel(CurrentName)
  /\ Len(stack) < MaxDepth
  /\ \E name \in {CurrentName} :
     \E item \in {item_from_structure_definition(name, structure_definitions)} :
        /\ item.status = "ok"
        /\ compiled' = Append(compiled, name)
        /\ emitted' = Append(emitted, name)
        /\ files' = (Lower(name) :> item) @@ files
        /\ \E order \in IterationOrders(item.dependencies) :
             LET unprocessed == unprocessed_dependecies(order, processed)
             IN /\ processed' = extend(processed, unprocessed)
                /\ stack' = Call([stack EXCEPT ![Len(stack)] = [@ EXCEPT !.idx = @ + 1]],
                                 Frame(RecursiveItems(unprocessed, Top.items)))
  /\ UNCHANGED <<structure_definitions, items, run, status, result, error, pending,
                 firstRun, call>>

\* lines 160-163: the loop is over; the call returns a new sorted list.  Only
\* the top-level call's return value is used.
Return ==
  /\ Running /\ Top.pc = "loop" /\ Top.idx > Len(Top.items)
  /\ LET returned == sort(processed \o Top.items)
     IN /\ stack' = SubSeq(stack, 1, Len(stack) - 1)
        /\ result' = IF Len(stack) = 1 THEN returned ELSE result
        /\ status' = IF Len(stack) = 1 THEN "done" ELSE status
  /\ UNCHANGED <<structure_definitions, items, run, processed, compiled, emitted,
                 files, error, pending, firstRun, call>>

\* A second top-level call over the same input; the output folder is kept.
Rerun ==
  /\ status = "done" /\ run = "first"
  /\ run' = "second"
  /\ firstRun' = [result |-> result, files |-> files, emitted |-> emitted]
  /\ status' = "running"
  /\ stack' = <<Frame(items)>>
  /\ processed' = NewProcessed(processed)
  /\ compiled' = <<>>
  /\ emitted' = <<>>
  /\ result' = <<>>
  /\ UNCHANGED <<structure_definitions, items, files, error, pending, call>>

\* One call of write_items, from its entry to its return or its exception.
WriteItems ==
  \/ RejectEmptyString
  \/ EnterLoop
  \/ SkipSentinel
  \/ CompileFails
  \/ CompileEmitRecurse
  \/ Return

Next == WriteItems \/ Rerun

Spec == Init /\ [][Next]_vars

\* One top-level call over a complete index, run to its end: the program is a
\* single thread that the interpreter never suspends.
CompleteCatalogs == {CatalogSTU3, CatalogDSTU2}

SingleCallInit == Init /\ structure_definitions \in CompleteCatalogs

FairSpec == SingleCallInit /\ [][WriteItems]_vars /\ WF_vars(WriteItems)

(***************************************************************************)
(* item_from_structure_definition alone, one element of the differential   *)
(* at a time, over definitions drawn from a pool of element records.       *)
(***************************************************************************)
ProfileUrl == "http://hl7.org/fhir/StructureDefinition/Organization"

\* The element records of a definition called `name`, in document order.
Elements(name) ==
  << ElementDefinition(<<name>>, <<>>),
     WithMinMax(ElementDefinition(<<name, "name">>, <<Type("HumanName")>>), "0", "*"),
     ElementDefinition(<<name, "active">>, <<Type("boolean")>>),
     ElementDefinition(<<name, "active", "code">>, <<Type("string")>>),
     ElementDefinition(<<name, "value[x]">>, <<Type("boolean"), Type("Period")>>),
     ElementDefinition(<<name, "organization">>, <<ReferenceTo(ProfileUrl)>>),
     ElementDefinition(<<name, "item">>, <<Type("BackboneElement")>>),
     WithMinMax(ElementDefinition(<<name, "contact">>, <<Type("BackboneElement")>>), "0", "*"),
     ElementDefinition(<<name, "contact", "name">>, <<Type("HumanName")>>),
     ElementDefinition(<<name, "contact", "item">>, <<Type("BackboneElement")>>),
     ElementDefinition(<<name, "contact", "item", "code">>, <<Type("string")>>),
     ElementDefinition(<<name, "class">>, <<Type("Element")>>),
     ElementDefinition(<<name, "class", "code">>, <<Type("string")>>),
     ContentReference(<<name, "link">>, <<"#" \o name, "contact">>),
     NameReference(<<name, "other">>, "contact") >>

\* The name of a definition with its <base> and <baseDefinition>.
Header(name, base, baseDefinition) ==
  [name |-> name, base |-> base, baseDefinition |-> baseDefinition]

Headers ==
  { Header("Patient", <<"DomainResource">>, Absent),
    Header("Patient", Absent, StuUrl("DomainResource")),
    Header("Patient", <<"DomainResource">>, StuUrl("Resource")),
    Header("Patient", Absent, Absent),
    Header("Resource", Absent, Absent),
    Header("Patient", <<"FHIRBase">>, Absent),
    Header("Patient", Absent, StuUrl("FHIRBase")),
    Header("Patient", <<"boolean">>, Absent),
    Header("Patient", <<"object">>, Absent) }

\* The elements of `seq` at the positions in S, in the order of `seq`.
Select(seq, S) ==
  [i \in 1..Cardinality(S) |->
     seq[CHOOSE k \in S : Cardinality({j \in S : j <= k}) = i]]

Differentials(name) ==
  { Select(Elements(name), S) :
      S \in {T \in SUBSET (1..Len(Elements(name))) : Cardinality(T) <= MaxRecords} }

writeItemsVars == <<structure_definitions, items, run, status, stack, processed,
                    compiled, emitted, files, result, error, pending, firstRun>>

\* lines 175-190: the call has its definition and an empty item.
CompileInit ==
  /\ \E header \in Headers :
       \E differential \in Differentials(header.name) :
         call = [pc |-> "loop", name |-> header.name,
                 sd |-> StructureDefinition(header.base, header.baseDefinition,
                                            differential),
                 rest |-> differential, item |-> NewItem(header.name)]
  /\ structure_definitions = <<>>
  /\ items = <<>>
  /\ run = "first"
  /\ status = "idle"
  /\ stack = <<>>
  /\ processed = <<>>
  /\ compiled = <<>>
  /\ emitted = <<>>
  /\ files = <<>>
  /\ result = <<>>
  /\ error = "none"
  /\ pending = ""
  /\ firstRun = [result |-> <<>>, files |-> <<>>, emitted |-> <<>>]

\* The element the loop of line 194 is at.
InCall == call.pc = "loop" /\ call.rest # <<>>

Step(item) ==
  call' = [call EXCEPT !.item = item, !.rest = Tail(@),
                       !.pc = IF item.status = "ok" THEN "loop" ELSE "raised"]

\* lines 204-222: the element of the definition itself.
RootRecord ==
  /\ InCall
  /\ Len(Tail(Head(call.rest).path)) = 0
  /\ Step(RootElement(call.name, call.sd, call.item))
  /\ UNCHANGED writeItemsVars

\* lines 223-299: the element of an attribute.
AttributeRecord ==
  /\ InCall
  /\ Len(Tail(Head(call.rest).path)) # 0
  /\ Step(AttributeElement(Head(call.rest), call.item))
  /\ UNCHANGED writeItemsVars

\* line 301.
ReturnItem ==
  /\ call.pc = "loop" /\ call.rest = <<>>
  /\ call' = [call EXCEPT !.pc = "returned"]
  /\ UNCHANGED writeItemsVars

CompileNext == RootRecord \/ AttributeRecord \/ ReturnItem

CompileSpec == CompileInit /\ [][CompileNext]_vars

(***************************************************************************)
(* Vocabulary of the properties.                                           *)
(***************************************************************************)
Count(x, seq) == Cardinality({i \in DOMAIN seq : seq[i] = x})

NoDuplicates(seq) == \A i, j \in DOMAIN seq : i # j => seq[i] # seq[j]

IsSortedAscending(seq) == \A i \in 1..(Len(seq) - 1) : ~StrLess(seq[i + 1], seq[i])

\* The dependencies a definition of the index compiles to (none if it fails).
DependenciesOf(sds, name) ==
  LET item == item_from_structure_definition(name, sds)
  IN IF item.status = "ok" THEN item.dependencies ELSE {}

\* The names the driver expands when it meets them.
Expanded(sds, names) == (names \ Sentinels) \cap DOMAIN sds

RECURSIVE ReachableFrom(_, _, _)
\* The names reached from `frontier` along dependencies, through expanded names.
ReachableFrom(sds, frontier, seen) ==
  IF frontier \subseteq seen THEN seen
  ELSE CHOOSE reached \in
         { ReachableFrom(sds, next, all) :
             next \in {UNION {DependenciesOf(sds, n) : n \in Expanded(sds, frontier \ seen)}},
             all \in {seen \cup frontier} } : TRUE

Acyclic(sds) ==
  \A n \in DOMAIN sds \ Sentinels : n \notin ReachableFrom(sds, DependenciesOf(sds, n), {})

EveryDependencyResolves(sds) ==
  \A n \in DOMAIN sds : \A d \in DependenciesOf(sds, n) \ Sentinels :
     item_from_structure_definition(d, sds).status = "ok"

\* The root sequence is one name A, and some B # A has A -> B and B -> A.
MutualCycleRoot ==
  /\ Len(items) = 1
  /\ items[1] \notin Sentinels
  /\ \E b \in DependenciesOf(structure_definitions, items[1]) \ Sentinels :
        /\ b # items[1]
        /\ items[1] \in DependenciesOf(structure_definitions, b)

\* The recursion never reaches the bound of the model.
DepthBoundNotReached == Len(stack) < MaxDepth

(***************************************************************************)
(* C1.  The list returned by write_items holds no name more than once,     *)
(* also when a root is a dependency of another root or of itself, or       *)
(* occurs twice among the roots.                                           *)
(***************************************************************************)
C1_ProcessedHasNoDuplicates == status = "done" => NoDuplicates(result)

(***************************************************************************)
(* C2.  When write_items has returned, every dependency of every           *)
(* definition compiled in the run is a sentinel or is in the returned      *)
(* list.                                                                   *)
(***************************************************************************)
C2_DependenciesProcessed ==
  status = "done" =>
    \A n \in Range(emitted) :
       files[Lower(n)].dependencies \subseteq Sentinels \cup Range(result)

\* A definition found as a dependency, with a dependency of its own to expand.
C2_Witness ==
  /\ status = "done"
  /\ \E n \in Range(emitted) \ Range(items) :
        files[Lower(n)].dependencies \ Sentinels # {}

(***************************************************************************)
(* C3.  In one run no name is compiled more than once: a name already      *)
(* processed when the loop reaches it is skipped.                          *)
(***************************************************************************)
C3_CompiledAtMostOnce == NoDuplicates(compiled)

(***************************************************************************)
(* C4.  Over an acyclic index in which every dependency resolves,          *)
(* write_items terminates for every root sequence (by returning, or by     *)
(* raising on a root that does not compile), and each recursive call       *)
(* receives only names that were not in processed, which it adds.          *)
(***************************************************************************)
C4_TerminatesWhenAcyclic ==
  /\ (Acyclic(structure_definitions) /\ EveryDependencyResolves(structure_definitions))
        => <>(status # "running")
  /\ [][(Len(stack) >= 1 /\ Len(stack') > Len(stack)) =>
          LET called == Range(stack'[Len(stack')].items)
          IN /\ called \cap Range(processed) = {}
             /\ Range(processed') = Range(processed) \cup called]_vars

\* A call over an acyclic index has returned after a recursion four calls deep.
C4_Witness ==
  /\ Acyclic(structure_definitions) /\ EveryDependencyResolves(structure_definitions)
  /\ status = "done"
  /\ "FHIRBase" \in Range(result)

(***************************************************************************)
(* C5 as stated.  With A -> B and B -> A, write_items started from the     *)
(* root A never returns.                                                   *)
(***************************************************************************)
C5_CycleNeverReturns == MutualCycleRoot => status # "done"

(***************************************************************************)
(* C5 as amended.  With A -> B and B -> A, write_items started from the    *)
(* root A returns: B is appended to processed before the recursive call,   *)
(* the reference back to A is followed once, so that A is compiled twice   *)
(* and B once, and the returned list holds A twice.                        *)
(***************************************************************************)
C5_CycleReturns ==
  /\ MutualCycleRoot =>
       <>(/\ status = "done"
          /\ Count(items[1], compiled) = 2
          /\ Count(items[1], result) = 2
          /\ \A n \in Range(compiled) : n # items[1] => Count(n, compiled) = 1)
  /\ [](MutualCycleRoot => Count(items[1], compiled) <= 2)

C5_Witness == MutualCycleRoot /\ status = "done" /\ run = "first"

(***************************************************************************)
(* C6.  A sentinel name (FHIRBase, Element, Extension) is never handed to  *)
(* item_from_structure_definition and nothing is written for it, whether   *)
(* it is a root or a dependency found at any depth.                        *)
(***************************************************************************)
C6_SentinelsNeverExpanded ==
  /\ Range(compiled) \cap Sentinels = {}
  /\ Range(emitted) \cap Sentinels = {}
  /\ \A s \in Sentinels : Lower(s) \notin DOMAIN files

\* A sentinel among the roots and another found three calls deep.
C6_Witness ==
  /\ status = "done"
  /\ Range(items) \cap Sentinels # {}
  /\ "FHIRBase" \in Range(processed)
  /\ "FHIRBase" \notin Range(items)

(***************************************************************************)
(* C7.  A second run over the same roots and index returns the same list   *)
(* and leaves the same artifacts as the first, having compiled the same    *)
(* names, whatever the order in which the dependency sets were iterated.   *)
(***************************************************************************)
C7_SecondRunAgrees ==
  (status = "done" /\ run = "second") =>
     /\ result = firstRun.result
     /\ files = firstRun.files
     /\ Range(emitted) = Range(firstRun.emitted)
     /\ Len(emitted) = Len(firstRun.emitted)

\* The two runs iterated the dependency sets in different orders.
C7_Witness ==
  /\ status = "done" /\ run = "second"
  /\ emitted # firstRun.emitted
  /\ Len(result) >= 3

(***************************************************************************)
(* C8.  The returned list is in ascending order of str comparison.         *)
(***************************************************************************)
C8_ResultSorted == status = "done" => IsSortedAscending(result)

\* The sort moved something, and a lower-case name sorts after the others.
C8_Witness ==
  /\ status = "done"
  /\ result # processed \o items
  /\ Len(result) >= 3
  /\ result[Len(result)] = "boolean"

(***************************************************************************)
(* C9.  A root sequence holding '' is rejected before anything is          *)
(* compiled or written, wherever '' stands in it.                          *)
(***************************************************************************)
C9_EmptyRootRejected ==
  "" \in Range(items) =>
     /\ compiled = <<>>
     /\ emitted = <<>>
     /\ DOMAIN files = {}
     /\ status # "done"
     /\ status = "failed" => (error = "Exception" /\ pending = "")

\* '' stands after a root that compiles.
C9_Witness ==
  /\ status = "failed"
  /\ Len(items) = 2
  /\ items[1] = "Patient"
  /\ items[2] = ""

(***************************************************************************)
(* C10.  An exception of item_from_structure_definition leaves write_items *)
(* uncaught: every frame is gone, the failing name is not retried, nothing *)
(* is written for it or after it, and what was written stays as it was.    *)
(***************************************************************************)
C10_FailurePropagates ==
  /\ [](error # "none" =>
          /\ status = "failed"
          /\ stack = <<>>
          /\ pending \notin Range(emitted))
  /\ [][error' # "none" =>
          /\ emitted' = emitted
          /\ files' = files
          /\ (error # "none" => compiled' = compiled)]_vars

\* A dependency without an entry fails after other artifacts were written.
C10_Witness ==
  /\ status = "failed"
  /\ error = "KeyError"
  /\ pending \notin Range(items)
  /\ Len(emitted) >= 2

(***************************************************************************)
(* Vocabulary of the properties of item_from_structure_definition.         *)
(***************************************************************************)
Returned == call.pc = "returned"

Raised == call.pc = "raised"

\* The attribute dicts of the tree with their items: <<dict, item>>.
Nodes(item) ==
  UNION {{<<d, item.heap[d][i]>> : i \in DOMAIN item.heap[d]} : d \in DOMAIN item.heap}

\* A step in which the element of an attribute was stored.
AttributeStored ==
  /\ call.pc = "loop" /\ call.rest # <<>>
  /\ Len(Head(call.rest).path) > 1
  /\ call'.pc = "loop" /\ call' # call

\* The properties stored by such a step.
Stored == {n[2].value : n \in Nodes(call'.item) \ Nodes(call.item)}

DeclaredCodes(e) == [i \in DOMAIN e.type |-> e.type[i].code]

\* A declared code as the attribute carries it.
Carried(type_) ==
  IF type_.code # "Reference" THEN type_.code
  ELSE IF type_.profile = Absent THEN "Reference(reference=\"None\")"
  ELSE "Reference(reference=\"" \o type_.profile[1] \o "\")"

(***************************************************************************)
(* C11 as stated.  An element with two or more type codes is stored with   *)
(* the list of exactly the declared codes in declaration order, an element *)
(* with one type code with that code as a str.                             *)
(***************************************************************************)
C11_DeclaredCodesKept ==
  [][AttributeStored =>
       LET e == Head(call.rest)
       IN \A properties \in Stored :
            /\ Len(e.type) >= 2 =>
                 properties.type = [list |-> TRUE, value |-> DeclaredCodes(e)]
            /\ Len(e.type) = 1 =>
                 properties.type = [list |-> FALSE, value |-> DeclaredCodes(e)]]_vars

(***************************************************************************)
(* C11 as amended.  Exactly one properties dict is stored; its type is a   *)
(* list iff the element has two or more type codes, and then the list of   *)
(* the declared codes in declaration order, a str otherwise; a code        *)
(* Reference is carried as Reference(reference="<profile>"), and a sole    *)
(* code Element or BackboneElement is replaced by the capitalized name of  *)
(* the attribute.                                                          *)
(***************************************************************************)
C11_TypesCarried ==
  [][AttributeStored =>
       LET e == Head(call.rest)
       IN /\ Cardinality(Stored) = 1
          /\ \A properties \in Stored :
               /\ properties.type.list <=> Len(e.type) >= 2
               /\ Len(e.type) >= 2 =>
                    properties.type.value = [i \in DOMAIN e.type |-> Carried(e.type[i])]
               /\ Len(e.type) = 1 =>
                    properties.type.value =
                      IF e.type[1].code \in {"Element", "BackboneElement"}
                      THEN <<Capitalize(properties.name)>>
                      ELSE <<Carried(e.type[1])>>]_vars

\* A choice of two codes, a Reference with a profile and an inline element
\* were stored by one call.
C11_Witness ==
  /\ Returned
  /\ \E a, b, c \in Nodes(call.item) :
       /\ a[2].value.type = [list |-> TRUE, value |-> <<"boolean", "Period">>]
       /\ b[2].value.type =
            [list |-> FALSE, value |-> <<"Reference(reference=\"" \o ProfileUrl \o "\")">>]
       /\ c[2].value.type = [list |-> FALSE, value |-> <<"Item">>]

(***************************************************************************)
(* C12.  When the call returns, every attribute stored for a sole type     *)
(* Element or BackboneElement, at any depth, has exactly one inline class  *)
(* in implicit_classes: named by the capitalized attribute name, with that *)
(* type as superclass, and with the attribute's own 'attributes' dict as   *)
(* its 'attributes', also when two such attributes at different paths have *)
(* the same last path segment.                                             *)
(***************************************************************************)
C12_OneInlineClassPerNode ==
  Returned =>
    \A n \in Nodes(call.item) :
      LET properties == n[2].value
          classes == call.item.implicit_classes
      IN properties.attributes # 0 =>
           Cardinality({i \in DOMAIN classes :
                          /\ classes[i].value.attributes = properties.attributes
                          /\ classes[i].value.name = Capitalize(properties.name)
                          /\ classes[i].value.superclass \in InlineTypes}) = 1

\* The call is over and no attribute element made it fail.
Resolved == (Returned \/ Raised) /\ call.item.status \in {"ok", "Exception"}

\* The definition has its own element, the one whose path is its name.
HasRootElement == \E i \in DOMAIN call.sd.differential : Len(call.sd.differential[i].path) = 1

(***************************************************************************)
(* C13.  A definition with base = N and a definition with baseDefinition = *)
(* a URL whose last path segment is N both compile with superclass N, and  *)
(* with both present the value of base is the one used.                    *)
(***************************************************************************)
C13_DialectsAgree ==
  Resolved =>
    LET base == call.sd.base
        baseDefinition == call.sd.baseDefinition
    IN /\ base # Absent =>
            call.item.status = "ok" /\ call.item.superclass = base[Len(base)]
       /\ (base = Absent /\ baseDefinition # Absent) =>
            /\ call.item.status = "ok"
            /\ call.item.superclass = baseDefinition[Len(baseDefinition)]

(***************************************************************************)
(* C14.  The dependencies of a compiled definition are exactly the codes   *)
(* of COMPLEX_TYPES among the types of its attribute elements, at any      *)
(* depth, and its superclass unless that is a primitive type or 'object';  *)
(* the Patient of three elements compiles to superclass DomainResource,    *)
(* name 0..* HumanName, active 0..1 boolean and dependencies               *)
(* {DomainResource, HumanName}.                                            *)
(***************************************************************************)
ComplexCodes(differential) ==
  UNION {TypeCodes(differential[i]) \cap COMPLEX_TYPES :
           i \in {j \in DOMAIN differential : Len(differential[j].path) > 1}}

PatientExample ==
  /\ call.name = "Patient"
  /\ call.sd.base = <<"DomainResource">>
  /\ call.sd.baseDefinition = Absent
  /\ call.sd.differential = Select(Elements("Patient"), {1, 2, 3})

C14_DependenciesExact ==
  Returned =>
    /\ call.item.dependencies =
         ComplexCodes(call.sd.differential) \cup
         ({call.item.superclass} \ (PRIMITIVE_TYPES \cup {"object"}))
    /\ PatientExample =>
         /\ call.item.superclass = "DomainResource"
         /\ call.item.dependencies = {"DomainResource", "HumanName"}
         /\ call.item.heap[1] =
              << [key |-> "name",
                  value |-> [name |-> "name", min |-> "0", max |-> "*",
                             type |-> [list |-> FALSE, value |-> <<"HumanName">>],
                             attributes |-> 0]],
                 [key |-> "active",
                  value |-> [name |-> "active", min |-> "0", max |-> "1",
                             type |-> [list |-> FALSE, value |-> <<"boolean">>],
                             attributes |-> 0]] >>

\* The name a suspended call was at when it called write_items on the
\* dependencies of that name.
Caller(k) == stack[k].items[stack[k].idx - 1]

\* The dependencies of the definitions compiled so far in this run.
Discovered == UNION {files[Lower(n)].dependencies : n \in Range(emitted)}

(***************************************************************************)
(* C15 as stated.  A name is not in processed at the moment                *)
(* item_from_structure_definition is called for it, nor while the call of  *)
(* write_items on its dependencies lasts.                                  *)
(***************************************************************************)
C15_NotProcessedWhileCompiled ==
  /\ (InLoop /\ ~IsSentinel(CurrentName)) => CurrentName \notin Range(processed)
  /\ \A k \in 1..(Len(stack) - 1) : Caller(k) \notin Range(processed)

(***************************************************************************)
(* C15 as amended.  The items of every recursive call are in processed     *)
(* from before the call, so a name found as a dependency is in processed   *)
(* when it is compiled and while its dependencies are; it holds nothing    *)
(* but dependencies found in the run, so a root is in it at those moments  *)
(* only if a definition compiled earlier depends on it; the roots join the *)
(* list that the top-level call returns.                                   *)
(***************************************************************************)
C15_ProcessedBeforeCompiled ==
  /\ \A k \in 2..Len(stack) : Range(stack[k].items) \subseteq Range(processed)
  /\ status = "running" => Range(processed) \subseteq Discovered
  /\ status = "done" => Range(items) \cup Range(processed) \subseteq Range(result)

\* A dependency that is about to be compiled, and whose caller is a
\* dependency too, both already in processed.
C15_Witness ==
  /\ InLoop /\ ~IsSentinel(CurrentName)
  /\ Len(stack) >= 3
  /\ CurrentName \in Range(processed)
  /\ Caller(Len(stack) - 1) \in Range(processed)
  /\ Caller(1) \notin Range(processed)

\* The position of the last emission of a name.
LastEmission(name) ==
  CHOOSE p \in DOMAIN emitted : emitted[p] = name /\ \A q \in DOMAIN emitted : q > p => emitted[q] # name

FirstEmission(name) ==
  CHOOSE p \in DOMAIN emitted : emitted[p] = name /\ \A q \in DOMAIN emitted : q < p => emitted[q] # name

\* The names reached from the dependencies of a name.
Descendants(name) ==
  ReachableFrom(structure_definitions, DependenciesOf(structure_definitions, name), {})

(***************************************************************************)
(* C16.  Artifacts are written in the order of processing, depth first:    *)
(* a definition is compiled and written before the call on the             *)
(* dependencies it newly found, whatever is written while that call lasts  *)
(* is reached from it, the caller's next name waits until the call is      *)
(* over, and the roots are written in the order given; the order is not    *)
(* that of the sorted result.                                              *)
(***************************************************************************)
C16_EmissionDepthFirst ==
  /\ [](\A k \in 1..(Len(stack) - 1) :
          /\ stack[k].idx > 1
          /\ Caller(k) \in Range(emitted)
          /\ Range(stack[k + 1].items) \subseteq files[Lower(Caller(k))].dependencies
          /\ \A q \in DOMAIN emitted :
               q > LastEmission(Caller(k)) => emitted[q] \in Descendants(Caller(k)))
  /\ [](status = "done" =>
          /\ \A i \in DOMAIN items :
               ~IsSentinel(items[i]) => items[i] \in Range(emitted)
          /\ \A i, j \in DOMAIN items :
               (i < j /\ ~IsSentinel(items[i]) /\ ~IsSentinel(items[j])) =>
                  FirstEmission(items[i]) < LastEmission(items[j]))
  /\ [][(emitted' # emitted /\ run' = run) =>
          /\ compiled' = Append(compiled, CurrentName)
          /\ emitted' = Append(emitted, CurrentName)
          /\ Len(stack') = Len(stack) + 1
          /\ \A n \in Range(stack'[Len(stack')].items) : n \notin Range(processed)]_vars
  /\ [][\A k \in 1..(Len(stack) - 1) : k <= Len(stack') => stack'[k] = stack[k]]_vars

\* Patient, its three descendants and then the second root were written,
\* which is not the order of the result.
C16_Witness ==
  /\ status = "done" /\ run = "first"
  /\ items = <<"Patient", "Identifier">>
  /\ Len(emitted) >= 6
  /\ emitted[1] = "Patient"
  /\ emitted[Len(emitted) - 1] = "Identifier" \/ emitted[Len(emitted) - 2] = "Identifier"
  /\ ~IsSortedAscending(emitted)
  /\ IsSortedAscending(result)

\* The element records of attributes, and those below the top level.
AttributeElements ==
  {i \in DOMAIN call.sd.differential : Len(call.sd.differential[i].path) > 1}

NestedElements ==
  {i \in DOMAIN call.sd.differential : Len(call.sd.differential[i].path) > 2}

ParentPath(path) == SubSeq(path, 1, Len(path) - 1)

\* Every nested element comes after the element of its parent path.
AncestorsFirst ==
  \A i \in NestedElements :
    \E j \in 1..(i - 1) :
      call.sd.differential[j].path = ParentPath(call.sd.differential[i].path)

\* ... and that element's sole type is Element or BackboneElement.
ParentsInline ==
  \A i \in NestedElements :
    \A j \in 1..(i - 1) :
      call.sd.differential[j].path = ParentPath(call.sd.differential[i].path) =>
        /\ Len(call.sd.differential[j].type) = 1
        /\ call.sd.differential[j].type[1].code \in InlineTypes

\* The name under which the attribute of a path segment is stored.
StoredName(segment) == EscapeReserved(StripChoice(segment))

RECURSIVE Attached(_, _, _)
\* The tree holds a node at the path, each segment found by its stored name
\* below the node of the segment before it.
Attached(item, attributes, path) ==
  IF attributes = 0 \/ StoredName(Head(path)) \notin Keys(item.heap[attributes]) THEN FALSE
  ELSE IF Len(path) = 1 THEN TRUE
  ELSE Attached(item, Get(item.heap[attributes], StoredName(Head(path))).attributes,
                Tail(path))

(***************************************************************************)
(* C17.  For a definition whose elements come ancestor before descendant:  *)
(* the lookup of the ancestors succeeds for every ancestor name, also one  *)
(* stored without its '[x]' or with the '_' of def and class, and each     *)
(* element is attached once, below the node of its parent path; an element *)
(* whose parent is not an inline element makes the call fail, and only     *)
(* inline elements have an 'attributes' dict.                              *)
(***************************************************************************)
C17_AttachedUnderParent ==
  ((Returned \/ Raised) /\ AncestorsFirst) =>
    /\ ParentsInline => call.item.status # "KeyError"
    /\ ~ParentsInline => Raised
    /\ Returned =>
         /\ Cardinality(Nodes(call.item)) = Cardinality(AttributeElements)
         /\ \A i \in AttributeElements :
              Attached(call.item, call.item.attributes, Tail(call.sd.differential[i].path))
    /\ \A n \in Nodes(call.item) :
         n[2].value.attributes # 0 =>
           n[2].value.type = [list |-> FALSE, value |-> <<Capitalize(n[2].value.name)>>]

\* Neither <base> nor <baseDefinition>.
NoSuperclassNamed == call.sd.base = Absent /\ call.sd.baseDefinition = Absent

(***************************************************************************)
(* C18.  The call fails for every definition other than Resource that has  *)
(* neither base nor baseDefinition, so that no definition other than       *)
(* Resource is returned with the superclass FHIRBase it started with; for  *)
(* Resource without either the call does not fail on the superclass and    *)
(* returns superclass FHIRBase.                                            *)
(***************************************************************************)
C18_UndeterminedSuperclassFails ==
  /\ (Returned /\ call.name # "Resource") =>
       /\ ~NoSuperclassNamed
       /\ call.item.superclass = "FHIRBase" =>
            /\ call.sd.base = Absent
            /\ call.sd.baseDefinition # Absent
            /\ call.sd.baseDefinition[Len(call.sd.baseDefinition)] = "FHIRBase"
  /\ (call.name = "Resource" /\ NoSuperclassNamed) =>
       /\ call.item.status # "Exception"
       /\ Returned => call.item.superclass = "FHIRBase"

====
